---- MODULE Spec2Model ----
(***************************************************************************)
(* State-machine model of Kernel (src/kernel/Kernel.cpp): construction and *)
(* the boot reservation sequence, run / loadBootImage / loadBootProcess,   *)
(* the interrupt vector table (hookIntVector, enableIRQ, sendIRQ,          *)
(* executeIntVector) and Kernel::heap.                                     *)
(*                                                                         *)
(* Collaborators whose code is not part of src/ (SplitAllocator,           *)
(* ProcessManager, MemoryContext, IntController, MemoryBlock, List, the    *)
(* Log macros, BootImage.h) are modelled from the interface descriptions   *)
(* of spec.md, sections 3, 4.1, 6 and 7.                                   *)
(***************************************************************************)
EXTENDS Integers, Sequences, FiniteSets, TLC

(***************************************************************************)
(* Bounds of the model.  Sizes are scaled: a page has PAGESIZE bytes, the  *)
(* physical memory NumPages pages, a program name NAMELEN bytes.           *)
(***************************************************************************)
PAGESIZE == 4
NumPages == 8
NAMELEN == 2
MaxSymbols == 3
MaxMapFaults == 1
MaxHookCalls == 2
MaxDispatch == 2
MaxSends == 1

(***************************************************************************)
(* Constants of headers that are not under src/.                           *)
(***************************************************************************)
BOOTIMAGE_MAGIC0 == 51
BOOTIMAGE_MAGIC1 == 52
BOOTIMAGE_REVISION == 2
BootProgram == "BootProgram"
BootPrivProgram == "BootPrivProgram"
BootData == "BootData"

\* Kernel::Result
Success == "Success"
InvalidBootImage == "InvalidBootImage"
ProcessError == "ProcessError"
IOError == "IOError"
NoResult == "NoResult"

\* Memory access flags (Memory::User | Memory::Readable | ...)
SegmentAccess == {"User", "Readable", "Writable", "Executable"}
ArgsAccess == {"User", "Readable", "Writable"}

\* The first 4MB of physical memory, scaled to two pages.
LowMemSize == 2 * PAGESIZE

\* Arch::MemoryMap::range(MemoryMap::UserArgs): one page of user address space.
UserArgsRange == [virt |-> 32 * PAGESIZE, size |-> PAGESIZE]

\* SplitAllocator::toVirtual: the kernel maps physical memory at a fixed offset.
KernelVirtBase == 1000
toVirtual(phys) == phys + KernelVirtBase

VARIABLES
    pc,            \* position of the boot thread
    halted,        \* the system has been halted by FATAL
    log,           \* the Log sink: sequence of [level, text]
    coreInfo,      \* CoreInfo *m_coreInfo
    m_alloc,       \* SplitAllocator *m_alloc: the set of allocated physical pages
    memory,        \* contents of the kernel-mapped pages, by virtual address
    image,         \* the BootImage at m_coreInfo->bootImageAddress
    m_procs,       \* ProcessManager *m_procs: the processes it has created
    calls,         \* collaborator calls made so far, in order
    frame,         \* locals of loadBootImage / loadBootProcess
    result,        \* values returned by loadBootProcess, loadBootImage, run
    m_interrupts,  \* Vector<List<InterruptHook *> *> m_interrupts
    m_intControl,  \* IntController *m_intControl (ZERO or installed)
    intc,          \* the interrupt controller: base and line state
    cpu,           \* per core: the executeIntVector invocation in progress
    lastHook,      \* arguments of the last hookIntVector call
    hookCalls,     \* number of hookIntVector calls made
    dispatches,    \* number of executeIntVector invocations started
    heap,          \* the call of Kernel::heap: its locals and the allocators it sets up
    heapMem        \* the bytes of the memory around the heap

bootVars == <<pc, coreInfo, m_alloc, memory, image, m_procs, calls, frame, result>>
intVars == <<m_intControl, intc, cpu, lastHook, hookCalls, dispatches>>
heapVars == <<heap, heapMem>>
vars == <<pc, halted, log, coreInfo, m_alloc, memory, image, m_procs, calls,
          frame, result, m_interrupts, m_intControl, intc, cpu, lastHook, hookCalls,
          dispatches, heap, heapMem>>

Range(s) == {s[k] : k \in 1 .. Len(s)}

(***************************************************************************)
(* Log macros.  FATAL logs the message and halts the system (spec.md §7).  *)
(***************************************************************************)
LogLine(level, text, arg) == [level |-> level, text |-> text, arg |-> arg]
NOTICE(l, text, arg) == Append(l, LogLine("NOTICE", text, arg))
ERROR(l, text, arg) == Append(l, LogLine("ERROR", text, arg))
FATAL(text, arg) ==
    /\ log' = Append(log, LogLine("FATAL", text, arg))
    /\ halted' = TRUE

(***************************************************************************)
(* Physical Memory Ledger (SplitAllocator), spec.md §3 and §4.1.           *)
(***************************************************************************)
PhysPages(info) ==
    {info.memory.phys + k * PAGESIZE : k \in 0 .. (info.memory.size \div PAGESIZE) - 1}

\* allocate(Address): fails, without changing the ledger, when the page is
\* already allocated or outside the physical range.
AllocateAt(ledger, info, addr) ==
    IF addr \in PhysPages(info) /\ addr \notin ledger
    THEN [ok |-> TRUE, ledger |-> ledger \cup {addr}]
    ELSE [ok |-> FALSE, ledger |-> ledger]

\* allocate(Range &): the addresses a request for one page may return.
FreePages(ledger, info) == PhysPages(info) \ ledger

(***************************************************************************)
(* MemoryBlock::set and MemoryBlock::copy on one page (1-based bytes).     *)
(***************************************************************************)
MemoryBlockSet(page, value, count) ==
    [k \in 1 .. Len(page) |-> IF k <= count THEN value ELSE page[k]]
MemoryBlockCopy(page, src, count) ==
    [k \in 1 .. Len(page) |-> IF k <= count /\ k <= Len(src) THEN src[k] ELSE page[k]]

(***************************************************************************)
(* Inputs: the boot layout handed over by the boot loader (CoreInfo) and   *)
(* the boot image.                                                         *)
(***************************************************************************)
Layout(kernelPhys, chanAddr, chanSize) ==
    [memory |-> [phys |-> 0, size |-> NumPages * PAGESIZE],
     kernel |-> [phys |-> kernelPhys, size |-> PAGESIZE],
     bootImageAddress |-> 3 * PAGESIZE, bootImageSize |-> PAGESIZE,
     heapAddress |-> 4 * PAGESIZE, heapSize |-> 2 * PAGESIZE,
     coreChannelAddress |-> chanAddr, coreChannelSize |-> chanSize]

\* A disjoint layout, one whose kernel image lies inside the first 4MB, and one
\* whose inter-core channel runs past the end of physical memory.
CoreInfos ==
    { Layout(2 * PAGESIZE, 6 * PAGESIZE, PAGESIZE),
      Layout(PAGESIZE, 6 * PAGESIZE, PAGESIZE),
      Layout(2 * PAGESIZE, (NumPages - 1) * PAGESIZE, 2 * PAGESIZE) }

\* A program name: NAMELEN bytes, null-padded.
Name(c) == [k \in 1 .. NAMELEN |-> IF k = 1 THEN c ELSE 0]

\* The segment table of the images: a one-page segment, a segment of one page
\* and one byte, an empty segment.
SegmentTable ==
    << [virtualAddress |-> 16 * PAGESIZE, offset |-> PAGESIZE, size |-> PAGESIZE],
       [virtualAddress |-> 20 * PAGESIZE, offset |-> 2 * PAGESIZE, size |-> PAGESIZE + 1],
       [virtualAddress |-> 24 * PAGESIZE, offset |-> 4 * PAGESIZE, size |-> 0] >>

SymbolPool ==
    { [name |-> Name(65), entry |-> 16 * PAGESIZE, type |-> BootProgram,
       segmentsOffset |-> 0, segmentsCount |-> 1],
      [name |-> Name(66), entry |-> 20 * PAGESIZE, type |-> BootPrivProgram,
       segmentsOffset |-> 1, segmentsCount |-> 2],
      [name |-> Name(67), entry |-> 0, type |-> BootData,
       segmentsOffset |-> 0, segmentsCount |-> 1] }

SymbolTables == UNION {[1 .. n -> SymbolPool] : n \in 0 .. MaxSymbols}

BootImages ==
    { [magic |-> <<m0, m1>>, layoutRevision |-> rev,
       symbolTableCount |-> Len(syms), symbols |-> syms, segments |-> SegmentTable] :
        m0 \in {BOOTIMAGE_MAGIC0, 0}, m1 \in {BOOTIMAGE_MAGIC1, 0},
        rev \in {BOOTIMAGE_REVISION, BOOTIMAGE_REVISION + 1},
        syms \in SymbolTables }

\* Bytes found in memory that has never been written.
Garbage == {255}

Vectors == 0 .. 255
EmptySlot == [lst |-> FALSE, hooks |-> <<>>]

ZERO == "ZERO"

\* Contents of a slot of m_interrupts before Kernel::Kernel has cleared the table.
UninitSlot == [lst |-> TRUE, hooks |-> << [handler |-> "garbage", param |-> 0] >>]

NoHook == [vec |-> 0, handler |-> "none", param |-> 0]

IdleCpu == [pc |-> "idle", vec |-> 0, state |-> 0, lst |-> FALSE, i |-> 0, masked |-> FALSE,
            reenabled |-> FALSE, invoked |-> <<>>, notified |-> <<>>]

\* Positions of the boot thread inside Kernel::Kernel.
CtorPcs == {"ctor_low", "ctor_kernel", "ctor_boot", "ctor_heap", "ctor_chan", "ctor_fill"}

\* Kernel::heap has not been called: no allocator exists, the memory holds garbage.
MaxHeapAddr == 23
MaxHeapSize == 9
HeapAddrs == 0 .. MaxHeapAddr
IdleHeap == [pc |-> "idle", base |-> 0, size |-> 0, metaData |-> 0,
             bubbleRange |-> ZERO, poolRange |-> ZERO,
             bubble |-> ZERO, pool |-> ZERO, default |-> ZERO, ret |-> NoResult]
NoHeapYet ==
    /\ heap = IdleHeap
    /\ heapMem = [a \in HeapAddrs |-> "garbage"]

\* The vectors that are hooked and dispatched in the model, and the cores.
VecInputs == {0, 255}
Cores == {1, 2}

(***************************************************************************)
(* Kernel::Kernel, lines 32-53: the members are initialised, nothing is    *)
(* reserved yet and the interrupt table has not been cleared.              *)
(***************************************************************************)
InitBoot ==
    /\ pc = "ctor_low"
    /\ halted = FALSE
    /\ log = << LogLine("BANNER", "FreeNOS", <<>>) >>
    /\ coreInfo \in CoreInfos
    /\ m_alloc = {}
    /\ \E g \in Garbage :
          memory = [a \in {toVirtual(p) : p \in PhysPages(coreInfo)} |->
                        [k \in 1 .. PAGESIZE |-> g]]
    /\ image \in BootImages
    /\ m_procs = <<>>
    /\ calls = <<>>
    /\ frame = [index |-> 0, proc |-> 0, i |-> 0, j |-> 0, phys |-> 0]
    /\ result = [lbp |-> NoResult, lbi |-> NoResult, run |-> NoResult,
                 sendIRQ |-> NoResult]
    /\ m_interrupts \in {[v \in Vectors |-> s] : s \in {EmptySlot, UninitSlot}}
    /\ m_intControl = ZERO
    /\ intc = [base |-> 0, enabled |-> [v \in VecInputs |-> TRUE]]
    /\ cpu = [c \in Cores |-> IdleCpu]
    /\ lastHook = NoHook
    /\ hookCalls = 0
    /\ dispatches = 0
    /\ NoHeapYet

(***************************************************************************)
(* Kernel::Kernel, lines 55-73: the boot reservation sequence.  Each loop  *)
(* calls m_alloc->allocate(base + i) and discards the result.              *)
(***************************************************************************)
RECURSIVE MarkUsed(_, _, _, _, _)
MarkUsed(st, info, base, size, i) ==
    IF i < size
    THEN LET r == AllocateAt(st.ledger, info, base + i)
         IN MarkUsed([ledger |-> r.ledger,
                      calls |-> Append(st.calls, [op |-> "allocateAt", addr |-> base + i,
                                                  ok |-> r.ok])],
                     info, base, size, i + PAGESIZE)
    ELSE st

CtorReserve(from, to, base, size) ==
    /\ ~halted
    /\ pc = from
    /\ LET st == MarkUsed([ledger |-> m_alloc, calls |-> calls], coreInfo, base, size, 0)
       IN /\ m_alloc' = st.ledger
          /\ calls' = st.calls
    /\ pc' = to
    /\ UNCHANGED <<halted, log, coreInfo, memory, image, m_procs, frame, result,
                   m_interrupts>>
    /\ UNCHANGED intVars
    /\ UNCHANGED heapVars

Ctor_LowMem ==
    CtorReserve("ctor_low", "ctor_kernel", coreInfo.memory.phys, LowMemSize)
Ctor_Kernel ==
    CtorReserve("ctor_kernel", "ctor_boot", coreInfo.kernel.phys, coreInfo.kernel.size)
Ctor_BootImage ==
    CtorReserve("ctor_boot", "ctor_heap", coreInfo.bootImageAddress, coreInfo.bootImageSize)
Ctor_Heap ==
    CtorReserve("ctor_heap", "ctor_chan", coreInfo.heapAddress, coreInfo.heapSize)
Ctor_CoreChannel ==
    CtorReserve("ctor_chan", "ctor_fill", coreInfo.coreChannelAddress,
                coreInfo.coreChannelSize)

\* variant: the table is not cleared
Ctor_Fill_Skip ==
    /\ ~halted
    /\ pc = "ctor_fill"
    /\ pc' = "constructed"
    /\ UNCHANGED <<halted, log, coreInfo, m_alloc, memory, image, m_procs, calls, frame,
                   result, m_interrupts>>
    /\ UNCHANGED intVars
    /\ UNCHANGED heapVars

\* lines 75-76: m_interrupts.fill(ZERO)
Ctor_Fill ==
    /\ ~halted
    /\ pc = "ctor_fill"
    /\ m_interrupts' = [v \in Vectors |-> EmptySlot]
    /\ pc' = "constructed"
    /\ UNCHANGED <<halted, log, coreInfo, m_alloc, memory, image, m_procs, calls, frame,
                   result>>
    /\ UNCHANGED intVars
    /\ UNCHANGED heapVars

(***************************************************************************)
(* Kernel::run, lines 295-307.                                             *)
(***************************************************************************)
Run_Begin ==
    /\ ~halted
    /\ pc = "constructed"
    /\ log' = NOTICE(log, "", <<>>)
    /\ pc' = "lbi"
    /\ UNCHANGED <<halted, coreInfo, m_alloc, memory, image, m_procs, calls, frame, result,
                   m_interrupts>>
    /\ UNCHANGED intVars
    /\ UNCHANGED heapVars

\* line 303: m_procs->schedule()
Run_Schedule ==
    /\ ~halted
    /\ pc = "run_sched"
    /\ calls' = Append(calls, [op |-> "schedule"])
    /\ pc' = "scheduling"
    /\ UNCHANGED <<halted, log, coreInfo, m_alloc, memory, image, m_procs, frame, result,
                   m_interrupts>>
    /\ UNCHANGED intVars
    /\ UNCHANGED heapVars

\* ProcessManager::schedule comes back to its caller (a scheduler fault).
Schedule_Return ==
    /\ ~halted
    /\ pc = "scheduling"
    /\ calls' = Append(calls, [op |-> "schedule_return"])
    /\ pc' = "run_ret"
    /\ UNCHANGED <<halted, log, coreInfo, m_alloc, memory, image, m_procs, frame,
                   result, m_interrupts>>
    /\ UNCHANGED intVars
    /\ UNCHANGED heapVars

\* lines 305-306: return 0
Run_Return ==
    /\ ~halted
    /\ pc = "run_ret"
    /\ result' = [result EXCEPT !.run = "0"]
    /\ pc' = "returned"
    /\ UNCHANGED <<halted, log, coreInfo, m_alloc, memory, image, m_procs, calls, frame,
                   m_interrupts>>
    /\ UNCHANGED intVars
    /\ UNCHANGED heapVars

(***************************************************************************)
(* Kernel::loadBootImage, lines 198-218.                                   *)
(***************************************************************************)
\* variant: the layout revision is not compared
BootImageValid_NoRevision(img) ==
    /\ img.magic[1] = BOOTIMAGE_MAGIC0
    /\ img.magic[2] = BOOTIMAGE_MAGIC1

BootImageValid(img) ==
    /\ img.magic[1] = BOOTIMAGE_MAGIC0
    /\ img.magic[2] = BOOTIMAGE_MAGIC1
    /\ img.layoutRevision = BOOTIMAGE_REVISION

\* lines 200-208 and 216-217
LoadBootImage_Verify ==
    /\ ~halted
    /\ pc = "lbi"
    /\ \/ /\ BootImageValid(image)
          /\ log' = NOTICE(log, "bootimage", <<>>)
          /\ frame' = [frame EXCEPT !.index = 0]
          /\ pc' = "lbi_loop"
          /\ UNCHANGED result
       \/ /\ ~BootImageValid(image)
          /\ log' = ERROR(NOTICE(log, "bootimage", <<>>), "invalid boot image signature",
                          image.magic)
          /\ result' = [result EXCEPT !.lbi = InvalidBootImage]
          /\ pc' = "run_sched"
          /\ UNCHANGED frame
    /\ UNCHANGED <<halted, coreInfo, m_alloc, memory, image, m_procs, calls, m_interrupts>>
    /\ UNCHANGED intVars
    /\ UNCHANGED heapVars

\* lines 211-214: the loop over the symbol table
LoadBootImage_Loop ==
    /\ ~halted
    /\ pc = "lbi_loop"
    /\ \/ /\ frame.index < image.symbolTableCount
          /\ calls' = Append(calls, [op |-> "loadBootProcess", index |-> frame.index])
          /\ pc' = "lbp"
          /\ UNCHANGED result
       \/ /\ ~(frame.index < image.symbolTableCount)
          /\ result' = [result EXCEPT !.lbi = Success]
          /\ pc' = "run_sched"
          /\ UNCHANGED calls
    /\ UNCHANGED <<halted, log, coreInfo, m_alloc, memory, image, m_procs, frame,
                   m_interrupts>>
    /\ UNCHANGED intVars
    /\ UNCHANGED heapVars


(***************************************************************************)
(* ProcessManager::create and MemoryContext (spec.md §6): a new process    *)
(* has a fresh, empty memory context.                                      *)
(***************************************************************************)
NewProcess(entry, boot, priv) ==
    [entry |-> entry, boot |-> boot, priv |-> priv, maps |-> {}, ranges |-> {}]

(***************************************************************************)
(* Kernel::loadBootProcess, lines 220-293.                                 *)
(***************************************************************************)
\* lines 231-233: program and segment point into the tables of the image
Program(img, index) == img.symbols[index + 1]
Segment(img, program, i) == img.segments[program.segmentsOffset + i + 1]

\* lines 251-253: the next (i, j) at which the body of the inner loop runs;
\* i = segmentsCount when both loops are over.
RECURSIVE NextMapPos(_, _, _, _)
NextMapPos(img, program, i, j) ==
    IF i < program.segmentsCount
    THEN IF j < Segment(img, program, i).size
         THEN [i |-> i, j |-> j]
         ELSE NextMapPos(img, program, i + 1, 0)
    ELSE [i |-> i, j |-> 0]

\* line 236: the entries that loadBootProcess ignores
\* variant: || in place of &&
IgnoredEntry_Or(program) ==
    program.type # BootProgram \/ program.type # BootPrivProgram

IgnoredEntry(program) ==
    program.type # BootProgram /\ program.type # BootPrivProgram

\* variant: the offset of the segment in the image is left out
SegmentMapping_NoOffset(seg, imagePAddr, j) ==
    [virt |-> seg.virtualAddress + j,
     phys |-> imagePAddr + j,
     access |-> SegmentAccess]

\* lines 255-260: the arguments of mem->map
SegmentMapping(seg, imagePAddr, j) ==
    [virt |-> seg.virtualAddress + j,
     phys |-> imagePAddr + seg.offset + j,
     access |-> SegmentAccess]

\* lines 265-269 and 276: the range handed to mem->mapRange
ArgRange(phys) ==
    [virt |-> UserArgsRange.virt, phys |-> phys, size |-> UserArgsRange.size,
     access |-> ArgsAccess]

\* variant: the page is zeroed after the name has been copied
CopyProgramArguments_ZeroLast(page, name) ==
    MemoryBlockSet(MemoryBlockCopy(page, name, NAMELEN), 0, UserArgsRange.size)

\* lines 286-288: zero the arguments page, then copy the name into it
CopyProgramArguments(page, name) ==
    MemoryBlockCopy(MemoryBlockSet(page, 0, UserArgsRange.size), name, NAMELEN)

\* the return of loadBootProcess into the loop of loadBootImage (i++)
ReturnToLoop(res) ==
    /\ result' = [result EXCEPT !.lbp = res]
    /\ frame' = [frame EXCEPT !.index = frame.index + 1]
    /\ pc' = "lbi_loop"

\* lines 235-237: ignore non-BootProgram entries
LoadBootProcess_Type ==
    /\ ~halted
    /\ pc = "lbp"
    /\ LET program == Program(image, frame.index)
       IN \/ /\ IgnoredEntry(program)
             /\ ReturnToLoop(InvalidBootImage)
          \/ /\ ~IgnoredEntry(program)
             /\ pc' = "lbp_create"
             /\ UNCHANGED <<result, frame>>
    /\ UNCHANGED <<halted, log, coreInfo, m_alloc, memory, image, m_procs, calls,
                   m_interrupts>>
    /\ UNCHANGED intVars
    /\ UNCHANGED heapVars

\* variant: the failure is logged and the function goes on
CreateFailed_Continue(program) ==
    /\ log' = Append(log, LogLine("FATAL", "failed to create boot program", program.name))
    /\ pc' = "lbp_alloc"
    /\ UNCHANGED <<halted, result, m_procs, frame>>

\* lines 241-245: create has returned null
CreateFailed(program) ==
    /\ FATAL("failed to create boot program", program.name)
    /\ result' = [result EXCEPT !.lbp = ProcessError]
    /\ pc' = "halted"
    /\ UNCHANGED <<m_procs, frame>>

\* lines 239-248: create the process
\* variant: the privileged flag is taken from the wrong type
LoadBootProcess_Create_PrivInverted ==
    /\ ~halted
    /\ pc = "lbp_create"
    /\ LET program == Program(image, frame.index)
           priv == (program.type = BootProgram)
           call(ok) == [op |-> "create", index |-> frame.index, entry |-> program.entry,
                        boot |-> TRUE, priv |-> priv, ok |-> ok]
           pos == NextMapPos(image, program, 0, 0)
       IN \/ /\ calls' = Append(calls, call(TRUE))
             /\ m_procs' = Append(m_procs, NewProcess(program.entry, TRUE, priv))
             /\ frame' = [frame EXCEPT !.proc = Len(m_procs) + 1, !.i = pos.i, !.j = pos.j]
             /\ pc' = "lbp_map"
             /\ UNCHANGED <<halted, log, result>>
          \/ /\ calls' = Append(calls, call(FALSE))
             /\ CreateFailed(program)
    /\ UNCHANGED <<coreInfo, m_alloc, memory, image, m_interrupts>>
    /\ UNCHANGED intVars
    /\ UNCHANGED heapVars

\* lines 239-248: create the process and get its memory context
LoadBootProcess_Create ==
    /\ ~halted
    /\ pc = "lbp_create"
    /\ LET program == Program(image, frame.index)
           priv == (program.type = BootPrivProgram)
           call(ok) == [op |-> "create", index |-> frame.index, entry |-> program.entry,
                        boot |-> TRUE, priv |-> priv, ok |-> ok]
           pos == NextMapPos(image, program, 0, 0)
       IN \/ /\ calls' = Append(calls, call(TRUE))
             /\ m_procs' = Append(m_procs, NewProcess(program.entry, TRUE, priv))
             /\ frame' = [frame EXCEPT !.proc = Len(m_procs) + 1, !.i = pos.i, !.j = pos.j]
             /\ pc' = "lbp_map"
             /\ UNCHANGED <<halted, log, result>>
          \/ /\ calls' = Append(calls, call(FALSE))
             /\ CreateFailed(program)
    /\ UNCHANGED <<coreInfo, m_alloc, memory, image, m_interrupts>>
    /\ UNCHANGED intVars
    /\ UNCHANGED heapVars

\* the calls of MemoryContext::map that have failed so far
MapFaults == Cardinality({k \in 1 .. Len(calls) : calls[k].op = "map" /\ ~calls[k].ok})

\* lines 250-262: one call of mem->map; its result is discarded
LoadBootProcess_Map ==
    /\ ~halted
    /\ pc = "lbp_map"
    /\ LET program == Program(image, frame.index)
       IN \/ /\ frame.i < program.segmentsCount
             /\ LET m == SegmentMapping(Segment(image, program, frame.i),
                                        coreInfo.bootImageAddress, frame.j)
                    pos == NextMapPos(image, program, frame.i, frame.j + PAGESIZE)
                IN \E ok \in BOOLEAN :
                      /\ ok \/ MapFaults < MaxMapFaults
                      /\ calls' = Append(calls, [op |-> "map", index |-> frame.index,
                                                 proc |-> frame.proc, virt |-> m.virt,
                                                 phys |-> m.phys, access |-> m.access,
                                                 ok |-> ok])
                      /\ m_procs' = IF ok
                                    THEN [m_procs EXCEPT ![frame.proc].maps = @ \cup {m}]
                                    ELSE m_procs
                      /\ frame' = [frame EXCEPT !.i = pos.i, !.j = pos.j]
             /\ pc' = pc
          \/ /\ ~(frame.i < program.segmentsCount)
             /\ pc' = "lbp_alloc"
             /\ UNCHANGED <<calls, m_procs, frame>>
    /\ UNCHANGED <<halted, log, coreInfo, m_alloc, memory, image, result, m_interrupts>>
    /\ UNCHANGED intVars
    /\ UNCHANGED heapVars

\* lines 264-276: allocate the page for the program arguments
LoadBootProcess_AllocArgs ==
    /\ ~halted
    /\ pc = "lbp_alloc"
    /\ \/ /\ \E a \in FreePages(m_alloc, coreInfo) :
                /\ m_alloc' = m_alloc \cup {a}
                /\ calls' = Append(calls, [op |-> "allocate", index |-> frame.index,
                                           address |-> a, ok |-> TRUE])
                /\ frame' = [frame EXCEPT !.phys = a]
          /\ pc' = "lbp_maprange"
          /\ UNCHANGED <<halted, log, result>>
       \/ /\ FreePages(m_alloc, coreInfo) = {}
          /\ calls' = Append(calls, [op |-> "allocate", index |-> frame.index,
                                     address |-> 0, ok |-> FALSE])
          /\ FATAL("failed to allocate program arguments page", <<>>)
          /\ result' = [result EXCEPT !.lbp = ProcessError]
          /\ pc' = "halted"
          /\ UNCHANGED <<m_alloc, frame>>
    /\ UNCHANGED <<coreInfo, memory, image, m_procs, m_interrupts>>
    /\ UNCHANGED intVars
    /\ UNCHANGED heapVars

\* variant: the result of mapRange is not looked at
LoadBootProcess_MapArgs_IgnoreResult ==
    /\ ~halted
    /\ pc = "lbp_maprange"
    /\ LET r == ArgRange(frame.phys)
           call(ok) == [op |-> "mapRange", index |-> frame.index, proc |-> frame.proc,
                        virt |-> r.virt, phys |-> r.phys, size |-> r.size,
                        access |-> r.access, ok |-> ok]
       IN \/ /\ calls' = Append(calls, call(TRUE))
             /\ m_procs' = [m_procs EXCEPT ![frame.proc].ranges = @ \cup {r}]
          \/ /\ calls' = Append(calls, call(FALSE))
             /\ UNCHANGED m_procs
    /\ pc' = "lbp_copy"
    /\ UNCHANGED <<halted, log, result>>
    /\ UNCHANGED <<coreInfo, m_alloc, memory, image, frame, m_interrupts>>
    /\ UNCHANGED intVars
    /\ UNCHANGED heapVars

\* lines 278-283: map the arguments page into the process
LoadBootProcess_MapArgs ==
    /\ ~halted
    /\ pc = "lbp_maprange"
    /\ LET r == ArgRange(frame.phys)
           call(ok) == [op |-> "mapRange", index |-> frame.index, proc |-> frame.proc,
                        virt |-> r.virt, phys |-> r.phys, size |-> r.size,
                        access |-> r.access, ok |-> ok]
       IN \/ /\ calls' = Append(calls, call(TRUE))
             /\ m_procs' = [m_procs EXCEPT ![frame.proc].ranges = @ \cup {r}]
             /\ pc' = "lbp_copy"
             /\ UNCHANGED <<halted, log, result>>
          \/ /\ calls' = Append(calls, call(FALSE))
             /\ FATAL("failed to map program arguments page", <<>>)
             /\ result' = [result EXCEPT !.lbp = ProcessError]
             /\ pc' = "halted"
             /\ UNCHANGED m_procs
    /\ UNCHANGED <<coreInfo, m_alloc, memory, image, frame, m_interrupts>>
    /\ UNCHANGED intVars
    /\ UNCHANGED heapVars

\* lines 285-292: write the arguments page and return Success
LoadBootProcess_CopyArgs ==
    /\ ~halted
    /\ pc = "lbp_copy"
    /\ LET program == Program(image, frame.index)
           vaddr == toVirtual(frame.phys)
       IN /\ memory' = [memory EXCEPT ![vaddr] = CopyProgramArguments(@, program.name)]
          /\ calls' = Append(calls, [op |-> "write", index |-> frame.index,
                                     vaddr |-> vaddr])
          /\ log' = NOTICE(log, "loaded", program.name)
    /\ ReturnToLoop(Success)
    /\ UNCHANGED <<halted, coreInfo, m_alloc, image, m_procs, m_interrupts>>
    /\ UNCHANGED intVars
    /\ UNCHANGED heapVars

NextBoot ==
    \/ Ctor_LowMem
    \/ Ctor_Kernel
    \/ Ctor_BootImage
    \/ Ctor_Heap
    \/ Ctor_CoreChannel
    \/ Ctor_Fill
    \/ Run_Begin
    \/ LoadBootImage_Verify
    \/ LoadBootImage_Loop
    \/ LoadBootProcess_Type
    \/ LoadBootProcess_Create
    \/ LoadBootProcess_Map
    \/ LoadBootProcess_AllocArgs
    \/ LoadBootProcess_MapArgs
    \/ LoadBootProcess_CopyArgs
    \/ Run_Schedule
    \/ Schedule_Return
    \/ Run_Return

SpecBoot == InitBoot /\ [][NextBoot]_vars

(***************************************************************************)
(* Interrupt controller (IntController, spec.md §6) and the arithmetic of  *)
(* unsigned machine words.                                                 *)
(***************************************************************************)
Handlers == {"h1", "h2"}
Params == {0, 1}
\* The (handler, parameter) pairs that are registered in the model.
HookInputs == {<<"h1", 0>>, <<"h1", 1>>, <<"h2", 0>>}
\* IntController::getBase: the vectors of the controller are remapped to 32.
Bases == {32}
\* Words that a read through a null controller pointer may produce as the base.
GarbageBases == {0, 32}

\* u32 / uint arithmetic wraps around.  The word is scaled to 30 bits.
UIntModulus == 1073741824
UIntSub(a, b) == (a - b) % UIntModulus

\* The architecture kernel installs its controller before interrupts go live.
InstallIntController(base) ==
    /\ ~halted
    /\ pc \notin CtorPcs
    /\ m_intControl = ZERO
    /\ \A c \in Cores : cpu[c].pc = "idle"
    /\ m_intControl' = "IntController"
    /\ intc' = [intc EXCEPT !.base = base]
    /\ UNCHANGED <<halted, log, m_interrupts, cpu, lastHook, hookCalls, dispatches>>
    /\ UNCHANGED bootVars
    /\ UNCHANGED heapVars

(***************************************************************************)
(* Kernel::enableIRQ, lines 129-138.                                       *)
(***************************************************************************)
enableIRQ(ctl, control, irq, enabled) ==
    IF control # ZERO
    THEN IF enabled
         THEN [ctl EXCEPT !.enabled[irq] = TRUE]
         ELSE [ctl EXCEPT !.enabled[irq] = FALSE]
    ELSE ctl

\* enableIRQ called by an interrupt handler or on behalf of a user program, which
\* re-enable a line (comment of lines 173-175)
EnableIRQ(irq, enabled) ==
    /\ ~halted
    /\ pc \notin CtorPcs
    /\ intc' = enableIRQ(intc, m_intControl, irq, enabled)
    /\ cpu' = [c \in Cores |->
                 IF cpu[c].pc # "idle" /\ cpu[c].vec = irq /\ enabled
                    /\ m_intControl # ZERO
                 THEN [cpu[c] EXCEPT !.reenabled = TRUE]
                 ELSE cpu[c]]
    /\ UNCHANGED <<halted, log, m_interrupts, m_intControl, lastHook, hookCalls,
                   dispatches>>
    /\ UNCHANGED bootVars
    /\ UNCHANGED heapVars

(***************************************************************************)
(* Kernel::sendIRQ, lines 140-153.                                         *)
(***************************************************************************)
\* the (core, irq) pairs that are sent in the model
SendInputs == {<<1, 0>>, <<2, 255>>}

sendIRQ(coreId, irq) ==
    /\ ~halted
    /\ pc \notin CtorPcs
    /\ \/ /\ m_intControl # ZERO
          /\ Cardinality({k \in 1 .. Len(calls) : calls[k].op = "send"}) < MaxSends
          /\ \E ok \in BOOLEAN :
                /\ calls' = Append(calls, [op |-> "send", coreId |-> coreId, irq |-> irq,
                                           ok |-> ok])
                /\ IF ok
                   THEN /\ result' = [result EXCEPT !.sendIRQ = Success]
                        /\ UNCHANGED log
                   ELSE /\ log' = ERROR(log, "failed to send IPI to core", <<coreId>>)
                        /\ result' = [result EXCEPT !.sendIRQ = IOError]
       \/ /\ m_intControl = ZERO
          /\ result' = [result EXCEPT !.sendIRQ = Success]
          /\ UNCHANGED <<calls, log>>
    /\ UNCHANGED <<pc, halted, coreInfo, m_alloc, memory, image, m_procs, frame, m_interrupts>>
    /\ UNCHANGED intVars
    /\ UNCHANGED heapVars

(***************************************************************************)
(* Kernel::hookIntVector, lines 155-169.                                   *)
(***************************************************************************)
InterruptHook(h, p) == [handler |-> h, param |-> p]

\* List<InterruptHook *>::contains with the equality of InterruptHook: the
\* same handler and the same parameter (spec.md §3, §4.3).
ListContains(hooks, hook) == \E k \in 1 .. Len(hooks) : hooks[k] = hook

\* variant: the hook is appended without looking for it in the list
HookInsert_NoContains(slot, hook) ==
    LET lst == IF ~slot.lst THEN [lst |-> TRUE, hooks |-> <<>>] ELSE slot
    IN [lst EXCEPT !.hooks = Append(@, hook)]

\* variant: the hook is put in front of the list
HookInsert_Prepend(slot, hook) ==
    LET lst == IF ~slot.lst THEN [lst |-> TRUE, hooks |-> <<>>] ELSE slot
    IN IF ~ListContains(lst.hooks, hook)
       THEN [lst EXCEPT !.hooks = <<hook>> \o @]
       ELSE lst

\* lines 159-168 on the slot of the vector
HookInsert(slot, hook) ==
    LET lst == IF ~slot.lst THEN [lst |-> TRUE, hooks |-> <<>>] ELSE slot
    IN IF ~ListContains(lst.hooks, hook)
       THEN [lst EXCEPT !.hooks = Append(@, hook)]
       ELSE lst

hookIntVector(vec, h, p) ==
    /\ ~halted
    /\ pc \notin CtorPcs
    /\ hookCalls < MaxHookCalls
    \* hooks are added while no dispatch of the vector is in progress (spec.md §3)
    /\ \A c \in Cores : cpu[c].pc = "idle" \/ cpu[c].vec # vec
    /\ m_interrupts' = [m_interrupts EXCEPT ![vec] = HookInsert(@, InterruptHook(h, p))]
    /\ lastHook' = [vec |-> vec, handler |-> h, param |-> p]
    /\ hookCalls' = hookCalls + 1
    /\ UNCHANGED <<halted, log, m_intControl, intc, cpu, dispatches>>
    /\ UNCHANGED bootVars
    /\ UNCHANGED heapVars

(***************************************************************************)
(* Kernel::executeIntVector, lines 171-196, on core c.                     *)
(***************************************************************************)
\* the CPU enters executeIntVector(vec, state); state points to the registers
\* saved on core c
CPUState(c) == c

ExecuteIntVector_Enter(c, vec) ==
    /\ ~halted
    /\ pc \notin CtorPcs
    /\ cpu[c].pc = "idle"
    /\ dispatches < MaxDispatch
    /\ dispatches' = dispatches + 1
    /\ cpu' = [cpu EXCEPT ![c] = [IdleCpu EXCEPT !.pc = "mask", !.vec = vec,
                                                  !.state = CPUState(c)]]
    /\ UNCHANGED <<halted, log, m_interrupts, m_intControl, intc, lastHook, hookCalls>>
    /\ UNCHANGED bootVars
    /\ UNCHANGED heapVars

\* variant: enableIRQ(vec, true)
ExecuteIntVector_Mask_Enable(c) ==
    /\ ~halted
    /\ cpu[c].pc = "mask"
    /\ intc' = enableIRQ(intc, m_intControl, cpu[c].vec, TRUE)
    /\ cpu' = [cpu EXCEPT ![c].pc = "fetch", ![c].masked = FALSE,
                          ![c].reenabled = FALSE]
    /\ UNCHANGED <<halted, log, m_interrupts, m_intControl, lastHook, hookCalls,
                   dispatches>>
    /\ UNCHANGED bootVars
    /\ UNCHANGED heapVars

\* lines 173-176: auto-mask the IRQ
ExecuteIntVector_Mask(c) ==
    /\ ~halted
    /\ cpu[c].pc = "mask"
    /\ intc' = enableIRQ(intc, m_intControl, cpu[c].vec, FALSE)
    /\ cpu' = [cpu EXCEPT ![c].pc = "fetch", ![c].masked = (m_intControl # ZERO),
                          ![c].reenabled = FALSE]
    /\ UNCHANGED <<halted, log, m_interrupts, m_intControl, lastHook, hookCalls,
                   dispatches>>
    /\ UNCHANGED bootVars
    /\ UNCHANGED heapVars

\* lines 178-180: fetch the list of hooks of the vector
ExecuteIntVector_Fetch(c) ==
    /\ ~halted
    /\ cpu[c].pc = "fetch"
    /\ LET lst == m_interrupts[cpu[c].vec].lst
       IN cpu' = [cpu EXCEPT ![c].lst = lst, ![c].i = 1,
                             ![c].pc = IF lst THEN "hooks" ELSE "notify"]
    /\ UNCHANGED <<halted, log, m_interrupts, m_intControl, intc, lastHook, hookCalls,
                   dispatches>>
    /\ UNCHANGED bootVars
    /\ UNCHANGED heapVars

\* lines 183-186: one round of the loop over the hooks
HasCurrent(c) == cpu[c].pc = "hooks" /\ cpu[c].i <= Len(m_interrupts[cpu[c].vec].hooks)

ExecuteIntVector_Hook(c) ==
    /\ ~halted
    /\ cpu[c].pc = "hooks"
    /\ LET hooks == m_interrupts[cpu[c].vec].hooks
       IN \/ /\ HasCurrent(c)
             /\ cpu' = [cpu EXCEPT ![c].i = @ + 1,
                          ![c].invoked = Append(@,
                              [handler |-> hooks[cpu[c].i].handler,
                               state |-> cpu[c].state,
                               param |-> hooks[cpu[c].i].param,
                               vec |-> cpu[c].vec])]
          \/ /\ ~HasCurrent(c)
             /\ cpu' = [cpu EXCEPT ![c].pc = "notify"]
    /\ UNCHANGED <<halted, log, m_interrupts, m_intControl, intc, lastHook, hookCalls,
                   dispatches>>
    /\ UNCHANGED bootVars
    /\ UNCHANGED heapVars

\* lines 189-196: m_procs->interruptNotify(vec - m_intControl->getBase()).
\* Without a controller the call of getBase dereferences a null pointer: the
\* core faults, or it reads some word as the base and goes on.
\* variant: the result of interruptNotify is not looked at
NotifyWith_NoFatal(c, base) ==
    LET irq == UIntSub(cpu[c].vec, base)
    IN \E ok \in BOOLEAN :
          /\ cpu' = [cpu EXCEPT ![c].pc = "done",
                                ![c].notified = Append(@, [irq |-> irq, ok |-> ok])]
          /\ UNCHANGED <<halted, log>>

NotifyWith(c, base) ==
    LET irq == UIntSub(cpu[c].vec, base)
    IN \/ /\ cpu' = [cpu EXCEPT ![c].pc = "done",
                                ![c].notified = Append(@, [irq |-> irq, ok |-> TRUE])]
          /\ UNCHANGED <<halted, log>>
       \/ /\ cpu' = [cpu EXCEPT ![c].pc = "halted",
                                ![c].notified = Append(@, [irq |-> irq, ok |-> FALSE])]
          /\ FATAL("failed to raise interrupt notification for IRQ", <<cpu[c].vec>>)

ExecuteIntVector_Notify(c) ==
    /\ ~halted
    /\ cpu[c].pc = "notify"
    /\ \/ /\ m_intControl # ZERO
          /\ NotifyWith(c, intc.base)
       \/ /\ m_intControl = ZERO
          /\ \E base \in GarbageBases : NotifyWith(c, base)
       \/ /\ m_intControl = ZERO
          /\ cpu' = [cpu EXCEPT ![c].pc = "fault"]
          /\ UNCHANGED <<halted, log>>
    /\ UNCHANGED <<m_interrupts, m_intControl, intc, lastHook, hookCalls, dispatches>>
    /\ UNCHANGED bootVars
    /\ UNCHANGED heapVars

\* executeIntVector returns to the interrupted code
ExecuteIntVector_Return(c) ==
    /\ ~halted
    /\ cpu[c].pc = "done"
    /\ cpu' = [cpu EXCEPT ![c] = IdleCpu]
    /\ UNCHANGED <<halted, log, m_interrupts, m_intControl, intc, lastHook, hookCalls,
                   dispatches>>
    /\ UNCHANGED bootVars
    /\ UNCHANGED heapVars

(***************************************************************************)
(* The constructed kernel: the state in which Kernel::Kernel leaves the    *)
(* first layout.                                                           *)
(***************************************************************************)
ReserveAll(info) ==
    LET s0 == [ledger |-> {}, calls |-> <<>>]
        s1 == MarkUsed(s0, info, info.memory.phys, LowMemSize, 0)
        s2 == MarkUsed(s1, info, info.kernel.phys, info.kernel.size, 0)
        s3 == MarkUsed(s2, info, info.bootImageAddress, info.bootImageSize, 0)
        s4 == MarkUsed(s3, info, info.heapAddress, info.heapSize, 0)
    IN MarkUsed(s4, info, info.coreChannelAddress, info.coreChannelSize, 0)

InitInt ==
    /\ pc = "constructed"
    /\ halted = FALSE
    /\ log = << LogLine("BANNER", "FreeNOS", <<>>) >>
    /\ coreInfo = Layout(2 * PAGESIZE, 6 * PAGESIZE, PAGESIZE)
    /\ m_alloc = ReserveAll(coreInfo).ledger
    /\ calls = ReserveAll(coreInfo).calls
    /\ \E g \in Garbage :
          memory = [a \in {toVirtual(p) : p \in PhysPages(coreInfo)} |->
                        [k \in 1 .. PAGESIZE |-> g]]
    /\ image = [magic |-> <<BOOTIMAGE_MAGIC0, BOOTIMAGE_MAGIC1>>,
                layoutRevision |-> BOOTIMAGE_REVISION, symbolTableCount |-> 0,
                symbols |-> <<>>, segments |-> SegmentTable]
    /\ m_procs = <<>>
    /\ frame = [index |-> 0, proc |-> 0, i |-> 0, j |-> 0, phys |-> 0]
    /\ result = [lbp |-> NoResult, lbi |-> NoResult, run |-> NoResult,
                 sendIRQ |-> NoResult]
    /\ m_interrupts = [v \in Vectors |-> EmptySlot]
    /\ m_intControl = ZERO
    /\ intc = [base |-> 0, enabled |-> [v \in VecInputs |-> TRUE]]
    /\ cpu = [c \in Cores |-> IdleCpu]
    /\ lastHook = NoHook
    /\ hookCalls = 0
    /\ dispatches = 0
    /\ NoHeapYet

NextInt ==
    \/ \E base \in Bases : InstallIntController(base)
    \/ \E irq \in VecInputs : EnableIRQ(irq, TRUE)
    \/ \E vec \in VecInputs, hp \in HookInputs : hookIntVector(vec, hp[1], hp[2])
    \/ \E c \in Cores, vec \in VecInputs : ExecuteIntVector_Enter(c, vec)
    \/ \E c \in Cores : ExecuteIntVector_Mask(c)
    \/ \E c \in Cores : ExecuteIntVector_Fetch(c)
    \/ \E c \in Cores : ExecuteIntVector_Hook(c)
    \/ \E c \in Cores : ExecuteIntVector_Notify(c)
    \/ \E c \in Cores : ExecuteIntVector_Return(c)

SpecInt == InitInt /\ [][NextInt]_vars

(***************************************************************************)
(* The interrupt vector table from the construction of the kernel on:      *)
(* Kernel::Kernel on the first layout, then hooks and interrupts.          *)
(***************************************************************************)
InitTable ==
    /\ InitBoot
    /\ coreInfo = Layout(2 * PAGESIZE, 6 * PAGESIZE, PAGESIZE)
    /\ image.magic = <<BOOTIMAGE_MAGIC0, BOOTIMAGE_MAGIC1>>
    /\ image.layoutRevision = BOOTIMAGE_REVISION
    /\ image.symbolTableCount = 0

NextTable ==
    \/ Ctor_LowMem
    \/ Ctor_Kernel
    \/ Ctor_BootImage
    \/ Ctor_Heap
    \/ Ctor_CoreChannel
    \/ Ctor_Fill
    \/ NextInt

SpecTable == InitTable /\ [][NextTable]_vars

(***************************************************************************)
(* All operations that use the interrupt controller.                       *)
(***************************************************************************)
NextCtl ==
    \/ NextInt
    \/ \E in \in SendInputs : sendIRQ(in[1], in[2])

SpecCtl == InitInt /\ [][NextCtl]_vars

(***************************************************************************)
(* Interrupts as a controller delivers them: a vector is delivered to a    *)
(* core only while its line is enabled, and not while an earlier delivery  *)
(* of the vector has not yet reached its first statement, the auto-mask.   *)
(***************************************************************************)
Deliver(c, vec) ==
    /\ intc.enabled[vec]
    /\ \A d \in Cores : ~(cpu[d].pc = "mask" /\ cpu[d].vec = vec)
    /\ ExecuteIntVector_Enter(c, vec)

NextIrq ==
    \/ \E base \in Bases : InstallIntController(base)
    \/ \E irq \in VecInputs : EnableIRQ(irq, TRUE)
    \/ \E vec \in VecInputs, hp \in HookInputs : hookIntVector(vec, hp[1], hp[2])
    \/ \E c \in Cores, vec \in VecInputs : Deliver(c, vec)
    \/ \E c \in Cores : ExecuteIntVector_Mask(c)
    \/ \E c \in Cores : ExecuteIntVector_Fetch(c)
    \/ \E c \in Cores : ExecuteIntVector_Hook(c)
    \/ \E c \in Cores : ExecuteIntVector_Notify(c)
    \/ \E c \in Cores : ExecuteIntVector_Return(c)

SpecIrq == InitInt /\ [][NextIrq]_vars

(***************************************************************************)
(* Kernel::heap(base, size), lines 79-97.  Sizes are scaled: the control   *)
(* block of the BubbleAllocator has SizeofBubble bytes, the one of the     *)
(* PoolAllocator SizeofPool bytes.                                         *)
(***************************************************************************)
SizeofBubble == 2
SizeofPool == 3
HeapBases == {4, 8, 12}
HeapSizes == 3 .. MaxHeapSize

\* line 81
MetaData == SizeofBubble + SizeofPool

\* variant: the range of the bubble allocator starts at base
BubbleRange_AtBase(base, size) ==
    [address |-> base, size |-> UIntSub(size, MetaData), alignment |-> 4]

\* line 83
BubbleRange(base, size) ==
    [address |-> base + MetaData, size |-> UIntSub(size, MetaData), alignment |-> 4]

\* line 84
PoolRange(size) ==
    [address |-> 0, size |-> UIntSub(size, MetaData), alignment |-> 4]

\* placement new: the object occupies count bytes from address at
PlaceObject(mem, at, count, type) ==
    [a \in DOMAIN mem |-> IF at <= a /\ a < at + count THEN type ELSE mem[a]]

\* lines 79-84: the call and its locals
Heap_Call(base, size) ==
    /\ heap.pc = "idle"
    /\ heap' = [heap EXCEPT !.pc = "clear", !.base = base, !.size = size,
                            !.metaData = MetaData,
                            !.bubbleRange = BubbleRange(base, size),
                            !.poolRange = PoolRange(size)]
    /\ UNCHANGED <<heapMem, halted, log, m_interrupts>>
    /\ UNCHANGED bootVars
    /\ UNCHANGED intVars

\* lines 86-87: MemoryBlock::set((void *) base, 0, size)
Heap_Clear ==
    /\ heap.pc = "clear"
    /\ heapMem' = PlaceObject(heapMem, heap.base, heap.size, "zero")
    /\ heap' = [heap EXCEPT !.pc = "bubble"]
    /\ UNCHANGED <<halted, log, m_interrupts>>
    /\ UNCHANGED bootVars
    /\ UNCHANGED intVars

\* line 90: bubble = new (base) BubbleAllocator(bubbleRange)
Heap_NewBubble ==
    /\ heap.pc = "bubble"
    /\ heapMem' = PlaceObject(heapMem, heap.base, SizeofBubble, "BubbleAllocator")
    /\ heap' = [heap EXCEPT !.pc = "pool",
                            !.bubble = [at |-> heap.base, range |-> heap.bubbleRange,
                                        parent |-> ZERO]]
    /\ UNCHANGED <<halted, log, m_interrupts>>
    /\ UNCHANGED bootVars
    /\ UNCHANGED intVars

\* line 91: pool = new (base + sizeof(BubbleAllocator)) PoolAllocator(poolRange)
Heap_NewPool ==
    /\ heap.pc = "pool"
    /\ heapMem' = PlaceObject(heapMem, heap.base + SizeofBubble, SizeofPool,
                              "PoolAllocator")
    /\ heap' = [heap EXCEPT !.pc = "parent",
                            !.pool = [at |-> heap.base + SizeofBubble,
                                      range |-> heap.poolRange, parent |-> ZERO]]
    /\ UNCHANGED <<halted, log, m_interrupts>>
    /\ UNCHANGED bootVars
    /\ UNCHANGED intVars

\* line 92: pool->setParent(bubble)
Heap_SetParent ==
    /\ heap.pc = "parent"
    /\ heap' = [heap EXCEPT !.pc = "default", !.pool.parent = heap.bubble]
    /\ UNCHANGED <<heapMem, halted, log, m_interrupts>>
    /\ UNCHANGED bootVars
    /\ UNCHANGED intVars

\* lines 94-96: Allocator::setDefault(pool); return 0
Heap_SetDefault ==
    /\ heap.pc = "default"
    /\ heap' = [heap EXCEPT !.pc = "returned", !.default = heap.pool, !.ret = "0"]
    /\ UNCHANGED <<heapMem, halted, log, m_interrupts>>
    /\ UNCHANGED bootVars
    /\ UNCHANGED intVars

NextHeap ==
    \/ \E base \in HeapBases, size \in HeapSizes : Heap_Call(base, size)
    \/ Heap_Clear
    \/ Heap_NewBubble
    \/ Heap_NewPool
    \/ Heap_SetParent
    \/ Heap_SetDefault

\* Kernel::heap is static: it is called by the boot code of the architecture.
SpecHeap == InitInt /\ [][NextHeap]_vars

(***************************************************************************)
(* Vocabulary of the properties.                                           *)
(***************************************************************************)
CallsOf(op) == {k \in 1 .. Len(calls) : calls[k].op = op}
CallsAt(op, index) == {k \in 1 .. Len(calls) : calls[k].op = op /\ calls[k].index = index}
\* the calls made by loadBootProcess(index)
LbpOps == {"create", "map", "allocate", "mapRange", "write"}
CallsFor(index) ==
    {k \in 1 .. Len(calls) : calls[k].op \in LbpOps /\ calls[k].index = index}

\* The header carries the expected magic words and revision.
HeaderExpected ==
    image.magic = <<BOOTIMAGE_MAGIC0, BOOTIMAGE_MAGIC1>>
        /\ image.layoutRevision = BOOTIMAGE_REVISION

Indexes == 0 .. image.symbolTableCount - 1
IsProgramEntry(index) == image.symbols[index + 1].type \in {BootProgram, BootPrivProgram}

\* loadBootProcess(index) has returned Success
Loaded(index) == \E k \in 1 .. Len(calls) : calls[k].op = "write" /\ calls[k].index = index

\* the positions of the boot thread inside loadBootProcess
LbpPcs == {"lbp", "lbp_create", "lbp_map", "lbp_alloc", "lbp_maprange", "lbp_copy"}
\* loadBootImage has returned to run
AfterLoadPcs == {"run_sched", "scheduling", "run_ret", "returned"}

\* No process, mapping, arguments page or memory write exists.
NothingLoaded ==
    /\ m_procs = <<>>
    /\ \A op \in {"loadBootProcess", "create", "map", "allocate", "mapRange", "write"} :
          CallsOf(op) = {}
    /\ m_alloc \subseteq ReserveAll(coreInfo).ledger

(***************************************************************************)
(* C3: an image with a wrong magic[0], magic[1] or layoutRevision is       *)
(* rejected as a whole: loadBootImage returns InvalidBootImage, and no     *)
(* process is created, no segment mapped and no arguments page allocated,  *)
(* whatever the symbol table contains.                                     *)
(***************************************************************************)
C3_InvalidImageRejected ==
    ~HeaderExpected =>
        /\ NothingLoaded
        /\ pc \in AfterLoadPcs => result.lbi = InvalidBootImage

C3_Witness ==
    /\ pc = "run_sched"
    /\ image.magic = <<BOOTIMAGE_MAGIC0, BOOTIMAGE_MAGIC1>>
    /\ image.layoutRevision # BOOTIMAGE_REVISION
    /\ image.symbolTableCount = MaxSymbols
    /\ \A i \in Indexes : IsProgramEntry(i)
    /\ result.lbi = InvalidBootImage

(***************************************************************************)
(* C4: loadBootProcess on an entry that is neither Program nor             *)
(* PrivilegedProgram returns InvalidBootImage and creates, maps and        *)
(* allocates nothing for it; loadBootImage, when it returns for a valid    *)
(* image, has loaded every Program/PrivilegedProgram entry, in order,      *)
(* before and after the skipped ones, and returns Success.                 *)
(***************************************************************************)
ProgramEntries == {i \in Indexes : IsProgramEntry(i)}

C4_SkipOtherEntries ==
    /\ \A i \in Indexes :
          ~IsProgramEntry(i) =>
              /\ CallsFor(i) = {}
              /\ (pc = "lbi_loop" /\ frame.index = i + 1) => result.lbp = InvalidBootImage
    /\ (HeaderExpected /\ pc \in AfterLoadPcs) =>
          /\ result.lbi = Success
          /\ \A i \in ProgramEntries : Loaded(i)
          /\ Len(m_procs) = Cardinality(ProgramEntries)
          /\ \A i \in ProgramEntries :
                LET n == Cardinality({k \in ProgramEntries : k <= i})
                IN /\ m_procs[n].entry = image.symbols[i + 1].entry
                   /\ Cardinality(m_procs[n].ranges) = 1

C4_Witness ==
    /\ pc = "run_sched"
    /\ result.lbi = Success
    /\ image.symbolTableCount = 3
    /\ IsProgramEntry(0) /\ ~IsProgramEntry(1) /\ IsProgramEntry(2)
    /\ Loaded(0) /\ Loaded(2)
    /\ Len(m_procs) = 2

(***************************************************************************)
(* C5: for a program that loadBootProcess has loaded, exactly one process  *)
(* was created and mem->map was called exactly for the pages of its        *)
(* segments: for every segment i and every j in {0, PAGESIZE, ...} with    *)
(* j < segment[i].size, virtualAddress + j is mapped to imagePhysicalBase  *)
(* + offset + j with User|Readable|Writable|Executable, once, and nothing  *)
(* else is mapped; a one-page segment gives one mapping, at its declared   *)
(* virtual address.  The mappings of the memory context are those calls    *)
(* that MemoryContext::map accepted.                                       *)
(***************************************************************************)
PageOffsets(size) == {j \in {n * PAGESIZE : n \in 0 .. size} : j < size}

ExpectedMappings(index) ==
    LET program == image.symbols[index + 1]
    IN UNION { { [virt |-> image.segments[program.segmentsOffset + i + 1].virtualAddress + j,
                  phys |-> coreInfo.bootImageAddress
                             + image.segments[program.segmentsOffset + i + 1].offset + j,
                  access |-> {"User", "Readable", "Writable", "Executable"}] :
                   j \in PageOffsets(image.segments[program.segmentsOffset + i + 1].size) } :
               i \in 0 .. program.segmentsCount - 1 }

MapCall(k) == [virt |-> calls[k].virt, phys |-> calls[k].phys, access |-> calls[k].access]

NameThenZeros(name) == [k \in 1 .. PAGESIZE |-> IF k <= NAMELEN THEN name[k] ELSE 0]

C6_ArgumentsPage ==
    \A index \in Indexes :
        Loaded(index) =>
            /\ Cardinality(CallsAt("allocate", index)) = 1
            /\ Cardinality(CallsAt("mapRange", index)) = 1
            /\ \A a \in CallsAt("allocate", index), r \in CallsAt("mapRange", index) :
                  /\ calls[a].ok /\ calls[r].ok /\ a < r
                  /\ calls[a].address \in PhysPages(coreInfo)
                  /\ calls[a].address \notin ReserveAll(coreInfo).ledger
                  /\ \A b \in CallsOf("allocate") :
                        (b # a /\ calls[b].ok) => calls[b].address # calls[a].address
                  /\ calls[a].address \in m_alloc
                  /\ m_procs[calls[r].proc].ranges =
                        { [virt |-> UserArgsRange.virt, phys |-> calls[a].address,
                           size |-> UserArgsRange.size,
                           access |-> {"User", "Readable", "Writable"}] }
                  /\ memory[toVirtual(calls[a].address)]
                        = NameThenZeros(image.symbols[index + 1].name)

C6_Witness ==
    /\ pc = "run_sched"
    /\ \E i \in Indexes, j \in Indexes : i # j /\ Loaded(i) /\ Loaded(j)

(***************************************************************************)
(* C8: when ProcessManager::create returns null, loadBootProcess logs a    *)
(* fatal message and ends with ProcessError; it maps no segment, allocates *)
(* no arguments page and writes no memory.                                 *)
(***************************************************************************)
C8_CreateFailure ==
    \A k \in CallsOf("create") :
        ~calls[k].ok =>
            /\ k = Len(calls)
            /\ halted
            /\ log[Len(log)].level = "FATAL"
            /\ log[Len(log)].text = "failed to create boot program"
            /\ result.lbp = ProcessError
            /\ \A op \in {"map", "allocate", "mapRange", "write"} :
                  CallsAt(op, calls[k].index) = {}
            /\ m_alloc = ReserveAll(coreInfo).ledger
                            \cup {calls[a].address : a \in {n \in CallsOf("allocate") :
                                                               calls[n].ok}}
            /\ Len(m_procs) = Cardinality({n \in CallsOf("create") : calls[n].ok})
            /\ \A a \in DOMAIN memory :
                  memory[a][1] \in Garbage
                      \/ \E w \in CallsOf("write") :
                            calls[w].vaddr = a /\ calls[w].index < calls[k].index

C8_Witness ==
    \E k \in CallsOf("create") :
        /\ ~calls[k].ok
        /\ calls[k].index = 1
        /\ Loaded(0)
        /\ halted

(***************************************************************************)
(* C9: if an allocateAt of the boot reservation sequence fails, the        *)
(* kernel halts: the construction does not complete and run() is never     *)
(* reached.  (The code discards the results of these calls.)               *)
(***************************************************************************)
ReservationFailed == \E k \in CallsOf("allocateAt") : ~calls[k].ok

C9_HaltOnFailedReservation == ReservationFailed => pc \in CtorPcs

(***************************************************************************)
(* C10: when run() calls the scheduler, it calls it exactly once and       *)
(* loadBootImage has processed every entry of the symbol table.  (run()    *)
(* discards the result of loadBootImage, line 300, so a rejected image     *)
(* reaches the scheduler with no entry processed.)                         *)
(***************************************************************************)
Scheduled == Cardinality(CallsOf("schedule"))
Processed(index) ==
    \E k \in 1 .. Len(calls) : calls[k].op = "loadBootProcess" /\ calls[k].index = index

C10_ScheduleAfterEveryEntry ==
    Scheduled > 0 => (Scheduled = 1 /\ \A i \in Indexes : Processed(i))

(***************************************************************************)
(* C1: whatever hookIntVector calls have been made, the hook list of a     *)
(* vector holds a (handler, parameter) pair at most once; after a call     *)
(* hookIntVector(v, h, p), also one that repeats the call before it, the   *)
(* list of v holds (h, p) exactly once.                                    *)
(***************************************************************************)
Occurrences(hooks, hook) == Cardinality({k \in 1 .. Len(hooks) : hooks[k] = hook})

C2_EveryHookSeesDisabled ==
    \A c \in Cores :
        (HasCurrent(c) /\ m_intControl # ZERO) => ~intc.enabled[cpu[c].vec]

(***************************************************************************)
(* C2, amended: with an interrupt controller installed, executeIntVector   *)
(* has disabled the line of v at the controller before the first hook of v *)
(* is entered, and a hook finds the line disabled at its entry unless the  *)
(* line has been re-enabled (enableIRQ(v, true)) since that auto-mask.     *)
(***************************************************************************)
C2_MaskedBeforeHooks ==
    \A c \in Cores :
        (cpu[c].pc = "hooks" /\ m_intControl # ZERO) =>
            /\ cpu[c].masked
            /\ (HasCurrent(c) /\ intc.enabled[cpu[c].vec]) => cpu[c].reenabled

C2_Witness ==
    \E c \in Cores :
        /\ HasCurrent(c)
        /\ cpu[c].i = 2
        /\ m_intControl # ZERO
        /\ ~intc.enabled[cpu[c].vec]

(***************************************************************************)
(* C7: when interruptNotify returns something other than Success, the      *)
(* failure is logged and the system halts: executeIntVector does not       *)
(* return and nothing is dispatched afterwards.                            *)
(***************************************************************************)
NotifyFailed(c) == cpu[c].notified # <<>> /\ ~cpu[c].notified[Len(cpu[c].notified)].ok

C7_NotifyFailureHalts ==
    \A c \in Cores :
        NotifyFailed(c) =>
            /\ halted
            /\ cpu[c].pc = "halted"
            /\ log[Len(log)] = LogLine("FATAL",
                                       "failed to raise interrupt notification for IRQ",
                                       <<cpu[c].vec>>)
            /\ ~ENABLED NextInt

C7_Witness ==
    \E c \in Cores, d \in Cores :
        /\ NotifyFailed(c)
        /\ m_intControl # ZERO
        /\ Len(cpu[c].invoked) = 1
        /\ d # c
        /\ cpu[d].pc = "hooks"

(***************************************************************************)
(* C11: a hook whose (handler, parameter) pair is not yet in the list of   *)
(* its vector is appended at the end, so the list is in registration       *)
(* order; executeIntVector(v, state) invokes the hooks of v one after the  *)
(* other in the order of the list, each once, with state, the parameter of *)
(* the hook and v, and invokes nothing else.                               *)
(***************************************************************************)
Invocation(c, hook) ==
    [handler |-> hook.handler, state |-> cpu[c].state, param |-> hook.param,
     vec |-> cpu[c].vec]

InvokedInOrder(c) ==
    LET hooks == m_interrupts[cpu[c].vec].hooks
    IN /\ cpu[c].pc \in {"mask", "fetch"} => cpu[c].invoked = <<>>
       /\ cpu[c].pc = "hooks" =>
             /\ cpu[c].i <= Len(hooks) + 1
             /\ cpu[c].invoked = [k \in 1 .. cpu[c].i - 1 |-> Invocation(c, hooks[k])]
       /\ cpu[c].pc \in {"notify", "done", "halted", "fault"} =>
             cpu[c].invoked = IF cpu[c].lst
                              THEN [k \in 1 .. Len(hooks) |-> Invocation(c, hooks[k])]
                              ELSE <<>>

AppendedInOrder ==
    \A v \in VecInputs :
        LET old == m_interrupts[v].hooks
            new == InterruptHook(lastHook'.handler, lastHook'.param)
        IN /\ m_interrupts'[v].hooks # old =>
                 (hookCalls' = hookCalls + 1 /\ lastHook'.vec = v)
           /\ (hookCalls' = hookCalls + 1 /\ lastHook'.vec = v) =>
                 m_interrupts'[v].hooks =
                     IF \E k \in 1 .. Len(old) : old[k] = new THEN old ELSE Append(old, new)

C11_HooksInOrder ==
    /\ [](\A c \in Cores : InvokedInOrder(c))
    /\ [][AppendedInOrder]_vars

\* both hooks of a vector have been invoked; the one registered first has the
\* greater parameter
C11_Witness ==
    \E c \in Cores :
        /\ cpu[c].pc = "done"
        /\ Len(cpu[c].invoked) = 2
        /\ cpu[c].invoked[1].param = 1
        /\ cpu[c].invoked[2].param = 0
        /\ cpu[c].invoked[1].state = c
        /\ cpu[c].vec = 255

(***************************************************************************)
(* C12: every execution of executeIntVector(v, state) of a kernel with an  *)
(* interrupt controller calls interruptNotify exactly once, after the      *)
(* hooks, with the logical IRQ v - base, which is a number of 0 .. 255:    *)
(* the subtraction does not wrap around.  (The code subtracts unsigned     *)
(* words, line 192, and a vector below the base wraps around.)             *)
(***************************************************************************)
C12_NotifyOnceLogicalIrq ==
    \A c \in Cores :
        m_intControl # ZERO =>
            /\ cpu[c].pc \in {"mask", "fetch", "hooks", "notify"} => cpu[c].notified = <<>>
            /\ cpu[c].pc \in {"done", "halted"} =>
                  /\ Len(cpu[c].notified) = 1
                  /\ cpu[c].notified[1].irq = cpu[c].vec - intc.base
                  /\ cpu[c].notified[1].irq \in 0 .. 255

(***************************************************************************)
(* C13: when MemoryContext::map fails for a page of a segment of a         *)
(* program, loadBootProcess does not return Success for that program, and  *)
(* once it has left the loop over the segments the failure has been        *)
(* logged and ProcessError is its result.  (The code discards the result   *)
(* of mem->map, lines 255-260.)                                            *)
(***************************************************************************)
MapFailed(index) == \E k \in CallsAt("map", index) : ~calls[k].ok

C13_MapFailureIsProcessError ==
    \A index \in Indexes :
        MapFailed(index) =>
            /\ ~Loaded(index)
            /\ (pc # "lbp_map" \/ frame.index # index) =>
                  /\ \E n \in 1 .. Len(log) : log[n].level \in {"FATAL", "ERROR"}
                  /\ frame.index = index => result.lbp = ProcessError

(***************************************************************************)
(* C14: when the allocation of the arguments page fails, loadBootProcess   *)
(* logs a fatal message and ends with ProcessError, without a call of      *)
(* mapRange and without a write to an arguments page; when the allocation  *)
(* succeeds and mapRange fails, it logs a fatal message and ends with      *)
(* ProcessError, and the allocated page is neither zeroed nor written.     *)
(***************************************************************************)
EndedFatal(k, text) ==
    /\ k = Len(calls)
    /\ halted
    /\ pc = "halted"
    /\ log[Len(log)] = LogLine("FATAL", text, <<>>)
    /\ result.lbp = ProcessError
    /\ CallsAt("write", calls[k].index) = {}
    /\ \A a \in DOMAIN memory :
          (\A b \in 1 .. PAGESIZE : memory[a][b] \in Garbage)
              \/ \E w \in CallsOf("write") :
                    calls[w].vaddr = a /\ calls[w].index < calls[k].index

C14_ArgumentsFailure ==
    /\ \A k \in CallsOf("allocate") :
          ~calls[k].ok =>
              /\ EndedFatal(k, "failed to allocate program arguments page")
              /\ CallsAt("mapRange", calls[k].index) = {}
    /\ \A k \in CallsOf("mapRange") :
          ~calls[k].ok =>
              /\ EndedFatal(k, "failed to map program arguments page")
              /\ \E a \in CallsAt("allocate", calls[k].index) :
                    /\ calls[a].ok /\ a < k /\ calls[a].address = calls[k].phys
                    /\ \A b \in 1 .. PAGESIZE :
                          memory[toVirtual(calls[a].address)][b] \in Garbage
              /\ m_procs[calls[k].proc].ranges = {}

\* the second program of an image finds no free page for its arguments
C14_Witness ==
    \E k \in CallsOf("allocate") :
        /\ ~calls[k].ok
        /\ calls[k].index = 1
        /\ Loaded(0)
        /\ CallsAt("map", 1) # {}
        /\ halted

(***************************************************************************)
(* C15: when Kernel::Kernel has returned, all 256 slots of the table are   *)
(* Empty.  From then on a slot changes only in a call of hookIntVector for *)
(* its vector, which leaves every other slot as it is; a slot that has a   *)
(* list keeps it, and the new list starts with the old one (nothing is     *)
(* removed or reordered); executeIntVector does not change the table.      *)
(***************************************************************************)
IsPrefix(old, new) ==
    Len(old) <= Len(new) /\ \A k \in 1 .. Len(old) : new[k] = old[k]

TableStep ==
    pc \notin CtorPcs =>
        /\ \A v \in Vectors :
              /\ m_interrupts[v].lst => m_interrupts'[v].lst
              /\ IsPrefix(m_interrupts[v].hooks, m_interrupts'[v].hooks)
              /\ m_interrupts'[v] # m_interrupts[v] =>
                    (hookCalls' = hookCalls + 1 /\ lastHook'.vec = v /\ cpu' = cpu)
        /\ cpu' # cpu => m_interrupts' = m_interrupts

C15_VectorTable ==
    /\ []((pc = "constructed" /\ hookCalls = 0) =>
             \A v \in Vectors : m_interrupts[v] = EmptySlot)
    /\ [][TableStep]_vars

\* vector 255 has two hooks, vector 0 is Empty and has been dispatched
C15_Witness ==
    \E c \in Cores :
        /\ cpu[c].pc = "done"
        /\ cpu[c].vec = 0
        /\ m_interrupts[0] = EmptySlot
        /\ Len(m_interrupts[255].hooks) = 2
        /\ Len(calls) > 0

(***************************************************************************)
(* C16, as stated (for a kernel with an interrupt controller): at most one *)
(* execution of executeIntVector for a vector is in progress at any time,  *)
(* also when the vector is re-enabled while its hooks run.                 *)
(***************************************************************************)
InProgress(c) == cpu[c].pc # "idle"

Overlap(c, d) ==
    c # d /\ InProgress(c) /\ InProgress(d) /\ cpu[c].vec = cpu[d].vec

C16_NoConcurrentReentry ==
    \A c, d \in Cores : m_intControl # ZERO => ~Overlap(c, d)

(***************************************************************************)
(* C16, amended: with an interrupt controller installed, two executions of *)
(* executeIntVector for the same vector are in progress at the same time   *)
(* only when the line of the vector has been re-enabled since the          *)
(* auto-mask of one of them; executions for different vectors overlap.     *)
(***************************************************************************)
C16_ReentryOnlyAfterReenable ==
    \A c, d \in Cores :
        (m_intControl # ZERO /\ Overlap(c, d)) => (cpu[c].reenabled \/ cpu[d].reenabled)

\* the line was re-enabled while the hooks ran and the vector came in again
C16_Witness ==
    \E c, d \in Cores :
        /\ m_intControl # ZERO
        /\ Overlap(c, d)
        /\ cpu[c].pc = "hooks"
        /\ cpu[c].reenabled
        /\ cpu[d].pc = "hooks"
        /\ ~cpu[d].reenabled

(***************************************************************************)
(* C17: when the first page is requested from the ledger (allocate-any),   *)
(* every page of the first 4MB, the kernel image, the boot image, the heap *)
(* and the inter-core channel is marked allocated; no arguments page lies  *)
(* inside one of these regions and no two programs have the same           *)
(* arguments page.  (A reservation that fails does not stop the            *)
(* construction, see C9: pages of a region that runs past the end of       *)
(* physical memory are not marked.)                                        *)
(***************************************************************************)
PagesOf(base, size) ==
    {p \in {n * PAGESIZE : n \in 0 .. 2 * NumPages} : p + PAGESIZE > base /\ p < base + size}

RegionPages(info) ==
    PagesOf(info.memory.phys, LowMemSize)
        \cup PagesOf(info.kernel.phys, info.kernel.size)
        \cup PagesOf(info.bootImageAddress, info.bootImageSize)
        \cup PagesOf(info.heapAddress, info.heapSize)
        \cup PagesOf(info.coreChannelAddress, info.coreChannelSize)

ArgumentPagesApart ==
    \A a \in CallsOf("allocate") :
        calls[a].ok =>
            /\ calls[a].address \notin RegionPages(coreInfo)
            /\ \A b \in CallsOf("allocate") :
                  (calls[b].ok /\ calls[b].address = calls[a].address) => b = a

C17_RegionsReservedFirst ==
    /\ CallsOf("allocate") # {} => RegionPages(coreInfo) \subseteq m_alloc
    /\ ArgumentPagesApart

(***************************************************************************)
(* C18, as stated: the bump (bubble) allocator is constructed over the     *)
(* range [base, base + metadata), the pool allocator over size - metadata  *)
(* bytes from the logical offset 0; the ranges do not overlap each other   *)
(* or the control blocks; the parent of the pool is the bump allocator and *)
(* the pool is the default allocator.                                      *)
(***************************************************************************)
Bytes(range) == {a \in HeapAddrs : range.address <= a /\ a < range.address + range.size}
ControlBlocks == {a \in HeapAddrs : heap.base <= a /\ a < heap.base + MetaData}

C18_BumpOverMetadata ==
    heap.pc = "returned" =>
        /\ heap.bubble.range.address = heap.base
        /\ heap.bubble.range.size = MetaData
        /\ heap.pool.range.address = 0
        /\ heap.pool.range.size = heap.size - MetaData
        /\ Bytes(heap.bubble.range) \cap ControlBlocks = {}
        /\ heap.pool.parent = heap.bubble
        /\ heap.default = heap.pool

(***************************************************************************)
(* C18, amended: heap(base, size) zeroes the heap and constructs the bump  *)
(* allocator object in place at base and the pool allocator object right   *)
(* after it; the range of the bump allocator is the size - metadata bytes  *)
(* from base + metadata (the heap after the control blocks), the range of  *)
(* the pool allocator is size - metadata bytes from the logical offset 0   *)
(* (unsigned subtraction); for size >= metadata the bump range lies inside *)
(* the heap, does not overlap the control blocks and is zeroed; the parent *)
(* of the pool is the bump allocator, the pool is the default allocator    *)
(* and 0 is returned.                                                      *)
(***************************************************************************)
C18_HeapLayout ==
    heap.pc = "returned" =>
        /\ heap.ret = "0"
        /\ heap.bubble.at = heap.base
        /\ heap.pool.at = heap.base + SizeofBubble
        /\ \A a \in ControlBlocks :
              heapMem[a] = IF a < heap.base + SizeofBubble
                           THEN "BubbleAllocator" ELSE "PoolAllocator"
        /\ heap.bubble.range =
              [address |-> heap.base + MetaData,
               size |-> (heap.size - MetaData) % UIntModulus, alignment |-> 4]
        /\ heap.pool.range =
              [address |-> 0, size |-> (heap.size - MetaData) % UIntModulus,
               alignment |-> 4]
        /\ heap.size >= MetaData =>
              /\ Bytes(heap.bubble.range) \cap ControlBlocks = {}
              /\ Bytes(heap.bubble.range) =
                    {a \in HeapAddrs : heap.base + MetaData <= a /\ a < heap.base + heap.size}
              /\ \A a \in Bytes(heap.bubble.range) : heapMem[a] = "zero"
        /\ \A a \in HeapAddrs :
              (a < heap.base \/ a >= heap.base + heap.size) =>
                  (heapMem[a] = "garbage" \/ a \in ControlBlocks)
        /\ heap.pool.parent = heap.bubble
        /\ heap.default = heap.pool

C18_Witness ==
    /\ heap.pc = "returned"
    /\ heap.base = 8
    /\ heap.size = MetaData + 3
    /\ heap.bubble.range.size = 3
    /\ heap.default.parent.at = 8

(***************************************************************************)
(* C19: for an image with a valid header loadBootImage calls               *)
(* loadBootProcess for the indexes 0, 1, ... of the symbol table, each     *)
(* once and in this order, and for all of them when it returns; the        *)
(* processes are created in the order of the table, one for each entry of  *)
(* type BootProgram or BootPrivProgram, with the entry point of the entry, *)
(* the boot-program flag true and the privileged flag true exactly for a   *)
(* BootPrivProgram.                                                        *)
(***************************************************************************)
IsLoadCall(call) == call.op = "loadBootProcess"
IsCreateCall(call) == call.op = "create"
LoadCalls == SelectSeq(calls, IsLoadCall)
CreateCalls == SelectSeq(calls, IsCreateCall)
\* the indexes of the program entries, in the order of the table
ProgramIndexes == SelectSeq([k \in 1 .. image.symbolTableCount |-> k - 1], IsProgramEntry)

C19_ProcessesInTableOrder ==
    HeaderExpected =>
        /\ \A k \in 1 .. Len(LoadCalls) : LoadCalls[k].index = k - 1
        /\ Len(LoadCalls) <= image.symbolTableCount
        /\ pc \in AfterLoadPcs =>
              /\ Len(LoadCalls) = image.symbolTableCount
              /\ Len(CreateCalls) = Len(ProgramIndexes)
              /\ Len(m_procs) = Len(ProgramIndexes)
        /\ Len(CreateCalls) <= Len(ProgramIndexes)
        /\ \A k \in 1 .. Len(CreateCalls) :
              LET entry == image.symbols[ProgramIndexes[k] + 1]
              IN /\ CreateCalls[k].index = ProgramIndexes[k]
                 /\ CreateCalls[k].index < Len(LoadCalls)
                 /\ CreateCalls[k].entry = entry.entry
                 /\ CreateCalls[k].boot = TRUE
                 /\ CreateCalls[k].priv = (entry.type = BootPrivProgram)
                 /\ CreateCalls[k].ok <=> k <= Len(m_procs)
        /\ \A k \in 1 .. Len(m_procs) :
              /\ k <= Len(CreateCalls)
              /\ m_procs[k].entry = CreateCalls[k].entry
              /\ m_procs[k].boot = CreateCalls[k].boot
              /\ m_procs[k].priv = CreateCalls[k].priv

\* a table of three entries, one of them not a program: the privileged program
\* comes first
C19_Witness ==
    /\ HeaderExpected
    /\ pc = "run_sched"
    /\ image.symbolTableCount = 3
    /\ Len(m_procs) = 2
    /\ m_procs[1].priv
    /\ ~m_procs[2].priv
    /\ image.symbols[2].type = BootData

(***************************************************************************)
(* C20: as long as no interrupt controller is installed, the operations    *)
(* that use it do not touch it: enableIRQ changes nothing, sendIRQ sends   *)
(* nothing and returns Success, and executeIntVector does not fault, runs  *)
(* the hooks and delivers the notification.  (executeIntVector calls       *)
(* m_intControl->getBase() without a test of the pointer, line 192.)       *)
(***************************************************************************)
C20_NullControllerSafe ==
    m_intControl = ZERO =>
        /\ \A v \in VecInputs : intc.enabled[v]
        /\ result.sendIRQ \in {NoResult, Success}
        /\ \A k \in 1 .. Len(calls) : calls[k].op # "send"
        /\ \A c \in Cores :
              /\ cpu[c].pc # "fault"
              /\ cpu[c].pc \in {"done", "halted"} =>
                    /\ Len(cpu[c].notified) = 1
                    /\ Len(cpu[c].invoked) = Len(m_interrupts[cpu[c].vec].hooks)

====
